---- MODULE Spec2Model ----
(***************************************************************************)
(* A model of the archelec4 frontend's Elasticsearch client                *)
(* (frontend/src/layout/header.tsx): the filter-to-query compiler          *)
(* (getESQueryFromFilter, getESQueryBody), the highlight builder, the      *)
(* terms-suggestion aggregator (getTerms, getESIncludeRegexp) and the two  *)
(* document requests (search, downSearchAsCSV).                            *)
(*                                                                         *)
(* Strings are sequences of one-character strings, so that includes(),     *)
(* split(), template concatenation, prefix tests and regular-expression    *)
(* matching are computed and not assumed.  A JavaScript object is a record *)
(* carrying a "tag"; a value that may be undefined is an Opt record.       *)
(***************************************************************************)
EXTENDS Integers, Sequences, FiniteSets, TLC

VARIABLES
    filters,     \* context.filters: the caller's FiltersState, in insertion order
    sort,        \* context.sort
    inflight,    \* the fetch requests sent and not yet settled
    termsResult, \* what the last settled getTerms promise resolved to
    cField,      \* getESQueryFromFilter: the field argument
    cFilter,     \* getESQueryFromFilter: the filter argument
    cQuery,      \* getESQueryFromFilter: the returned clause, Pending before the call
    rTyped,      \* the text typed in a facet's suggestion box
    rCand,       \* a candidate value of the facet's field
    rMatch       \* whether the include pattern built from rTyped matches rCand

sessionVars == <<filters, sort, inflight, termsResult>>
compileVars == <<cField, cFilter, cQuery>>
regexpVars == <<rTyped, rCand, rMatch>>
vars == <<filters, sort, inflight, termsResult, cField, cFilter, cQuery, rTyped, rCand, rMatch>>

----------------------------------------------------------------------------
(* Bounds of the model.                                                    *)

\* longest string drawn as a filter value
MaxLen == 1
\* longest value list of a terms filter
MaxValues == 2
\* most entries of a FiltersState drawn as an input
MaxFilters == 2
\* most requests in flight at once
MaxInflight == 2
\* most buckets in an aggregation response
MaxBuckets == 1
\* largest document count of a bucket
MaxCount == 2
\* longest typed text and longest candidate value the include pattern is tried on
MaxTyped == 2
MaxCand == 2

----------------------------------------------------------------------------
(* Strings and optional values.                                            *)

StrsUpTo(chars, n) == UNION {[1..k -> chars] : k \in 0..n}

SeqsUpTo(S, n) == UNION {[1..k -> S] : k \in 0..n}

\* String.prototype.includes for a one-character needle
Includes(s, ch) == \E i \in 1..Len(s) : s[i] = ch

RECURSIVE IndexOf(_, _, _)
\* position of the first ch in s at or after i, Len(s) + 1 when there is none
IndexOf(s, ch, i) ==
    IF i > Len(s) THEN Len(s) + 1
    ELSE IF s[i] = ch THEN i
    ELSE IndexOf(s, ch, i + 1)

\* s.split(ch)[0]
SplitHead(s, ch) == SubSeq(s, 1, IndexOf(s, ch, 1) - 1)

\* an undefined value, and a defined string
Undef == [def |-> FALSE, s |-> <<>>]
Def(s) == [def |-> TRUE, s |-> s]

DOT == "."
RAW == <<".", "r", "a", "w">>
OCR == <<"o", "c", "r">>
YYYY == <<"y", "y", "y", "y">>
STAR == <<"*">>

----------------------------------------------------------------------------
(* The wildcard value codec (components/filters/utils).                    *)

WILDCARD_PREFIX == <<"~">>

wildcardSpecialValue(raw) == WILDCARD_PREFIX \o raw

isWildcardSpecialValue(v) ==
    /\ Len(v) >= Len(WILDCARD_PREFIX)
    /\ SubSeq(v, 1, Len(WILDCARD_PREFIX)) = WILDCARD_PREFIX

valueFromWildcardSpecialValue(v) == SubSeq(v, Len(WILDCARD_PREFIX) + 1, Len(v))

----------------------------------------------------------------------------
(* Query clauses (QueryDslQueryContainer).                                 *)

Null == [tag |-> "null"]
Undefined == [tag |-> "undefined"]
Pending == [tag |-> "pending"]

Wildcard(fieldRaw, pattern) ==
    [tag |-> "wildcard", field |-> fieldRaw, value |-> pattern, case_insensitive |-> TRUE]

Terms(fieldRaw, vs) == [tag |-> "terms", field |-> fieldRaw, values |-> vs]

BoolShould(cs) == [tag |-> "bool", should |-> cs]

BoolMust(cs) == [tag |-> "bool", must |-> cs]

Range(field, bounds) == [tag |-> "range", field |-> field, range |-> bounds]

SimpleQueryString(q) ==
    [tag |-> "simple_query_string", sqs |-> [query |-> q, fields |-> <<OCR>>]]

Nested(path, q) == [tag |-> "nested", path |-> path, query |-> q]

\* an extra clause a filter spec may carry: opaque to the compiler
ExtraClause == [tag |-> "extra", id |-> "mandate"]

----------------------------------------------------------------------------
(* getESQueryFromFilter.                                                   *)

\* omitBy({gte: min, lte: max, format: "yyyy"}, isUndefined)
RangeBounds(value) ==
    LET keys == {"format"} \cup (IF value.min.def THEN {"gte"} ELSE {})
                           \cup (IF value.max.def THEN {"lte"} ELSE {})
    IN  [k \in keys |-> CASE k = "gte" -> value.min.s
                          [] k = "lte" -> value.max.s
                          [] OTHER -> YYYY]

\* TermsBranch without its wildcard case: every value an exact term
TermsBranch_AlwaysExact(field, v) == Terms(field \o RAW, <<v>>)

\* one branch of the should-disjunction of a terms filter
TermsBranch(field, v) ==
    IF isWildcardSpecialValue(v)
    THEN Wildcard(field \o RAW, STAR \o valueFromWildcardSpecialValue(v) \o STAR)
    ELSE Terms(field \o RAW, <<v>>)

\* the switch on filter.type; query stays null when no case matches
TypeQuery(field, filter) ==
    CASE filter.type = "terms" ->
            BoolShould([i \in 1..Len(filter.value.list) |->
                            TermsBranch(field, filter.value.list[i])])
      [] filter.type = "dates" -> Range(field, RangeBounds(filter.value))
      [] filter.type = "query" -> SimpleQueryString(filter.value.text)
      [] OTHER -> Null

\* filterSpec && "extraQueryField" in filterSpec && filterSpec.extraQueryField
HasExtra(spec) == spec.extraQueryField # Undefined

AddExtra(filter, query) ==
    IF HasExtra(filter.spec)
    THEN BoolMust(<<query, filter.spec.extraQueryField>>)
    ELSE query

AddNested(field, query) ==
    IF Includes(field, DOT)
    THEN Nested(SplitHead(field, DOT), query)
    ELSE query

\* getESQueryFromFilter with its last two steps swapped: the extra clause added
\* around the nested query
getESQueryFromFilter_NestedFirst(field, filter) ==
    AddExtra(filter, AddNested(field, TypeQuery(field, filter)))

getESQueryFromFilter(field, filter) ==
    AddNested(field, AddExtra(filter, TypeQuery(field, filter)))

----------------------------------------------------------------------------
(* The inputs of the compiler.                                             *)

ValueChars == {"x", "y"}
Strs == StrsUpTo(ValueChars, MaxLen)

\* a terms value is a literal term or a wildcard-encoded string
TermValues == Strs \cup {wildcardSpecialValue(s) : s \in Strs}

Year2000 == <<"2", "0", "0", "0">>
OptYears == {Undef, Def(Year2000)}

FieldA == <<"a">>
FieldPN == <<"p", ".", "n">>
FieldPNM == <<"p", ".", "n", ".", "m">>
Fields == {FieldA, FieldPN, FieldPNM}

Kinds == {"terms", "dates", "query"}

FilterSpec(kind, field, extra) ==
    [kind |-> kind, hasField |-> TRUE, field |-> field, order |-> "count_desc",
     extraQueryField |-> extra]

FilterSpecs(field) ==
    {FilterSpec(k, field, e) : k \in Kinds, e \in {Undefined, ExtraClause}}

\* the value a filter of each type carries, each shape under a name of its own: a list
\* of strings (terms), two optional years (dates), a text (query); "geo" is a type the
\* switch does not know
ValuesOfType(type) ==
    CASE type = "terms" -> [list : SeqsUpTo(TermValues, MaxValues)]
      [] type = "dates" -> [min : OptYears, max : OptYears]
      [] OTHER -> [text : Strs]

FilterTypes == Kinds \cup {"geo"}

FilterStates(field) ==
    UNION {[type : {t}, spec : FilterSpecs(field), value : ValuesOfType(t)] : t \in FilterTypes}

----------------------------------------------------------------------------
(* SpecCompile: getESQueryFromFilter applied to every input.               *)

IdleSession ==
    /\ filters = <<>>
    /\ sort = Undefined
    /\ inflight = {}
    /\ termsResult = Pending

IdleRegexp ==
    /\ rTyped = <<>>
    /\ rCand = <<>>
    /\ rMatch = "pending"

InitCompile ==
    /\ cField \in Fields
    /\ cFilter \in FilterStates(cField)
    /\ cQuery = Pending
    /\ IdleSession
    /\ IdleRegexp

Compile ==
    /\ cQuery = Pending
    /\ cQuery' = getESQueryFromFilter(cField, cFilter)
    /\ UNCHANGED <<cField, cFilter, sessionVars, regexpVars>>

NextCompile == Compile

SpecCompile == InitCompile /\ [][NextCompile]_vars

----------------------------------------------------------------------------
(* Properties of getESQueryFromFilter, checked under SpecCompile.          *)

Compiled == cQuery # Pending

KindMismatch(filter) == filter.type # filter.spec.kind \/ filter.type \notin Kinds

\* C3: compiling an entry whose kind differs from its spec's kind (or is none
\* of terms/dates/query) ends in an error, never in a returned clause.
C3_MismatchFailsFast ==
    (Compiled /\ KindMismatch(cFilter)) => cQuery.tag = "error"

\* the part of the field name before its first dot, found by position
IsPathOf(path, field) ==
    \E i \in 1..Len(field) :
        /\ field[i] = DOT
        /\ \A j \in 1..(i - 1) : field[j] # DOT
        /\ path = SubSeq(field, 1, i - 1)

\* a must-intersection of some clause with the spec's extra clause
IsExtraIntersection(q, extra) ==
    /\ q.tag = "bool"
    /\ DOMAIN q = {"tag", "must"}
    /\ Len(q.must) = 2
    /\ q.must[2] = extra

\* C5: for a field with a dot the outermost clause is a nested query on the
\* path before the first dot, and the intersection with the extra clause (when
\* the spec has one) lies inside it; for a field without a dot the outermost
\* clause is not a nested query.
C5_NestedOutermost ==
    Compiled =>
        LET extra == cFilter.spec.extraQueryField
        IN  IF \E i \in 1..Len(cField) : cField[i] = DOT
            THEN /\ cQuery.tag = "nested"
                 /\ IsPathOf(cQuery.path, cField)
                 /\ IF extra # Undefined
                    THEN IsExtraIntersection(cQuery.query, extra)
                    ELSE cQuery.query.tag \notin {"nested", "extra"}
            ELSE /\ cQuery.tag # "nested"
                 /\ extra # Undefined => IsExtraIntersection(cQuery, extra)

C5_Witness ==
    /\ Compiled
    /\ cField = FieldPNM
    /\ cFilter.type = "dates"
    /\ cFilter.spec.extraQueryField = ExtraClause
    /\ cQuery.tag = "nested"
    /\ cQuery.path = <<"p">>
    /\ cQuery.query.must[1].tag = "range"

\* the clause built for the filter's own type, under the nested and extra wrappers
TypeClauseOf(q, field, spec) ==
    LET inner == IF Includes(field, DOT) THEN q.query ELSE q
    IN  IF spec.extraQueryField # Undefined THEN inner.must[1] ELSE inner

\* C6: a terms entry compiles to a should-disjunction with one branch per
\* value, in order: a wildcard-encoded value gives a case-insensitive wildcard
\* clause '*<decoded>*' on '<field>.raw', any other value an exact-match clause
\* on '<field>.raw'.
C6_TermsDisjunction ==
    (Compiled /\ cFilter.type = "terms") =>
        LET d == TypeClauseOf(cQuery, cField, cFilter.spec)
        IN  /\ d.tag = "bool"
            /\ DOMAIN d = {"tag", "should"}
            /\ Len(d.should) = Len(cFilter.value.list)
            /\ \A i \in 1..Len(cFilter.value.list) :
                LET v == cFilter.value.list[i]
                    b == d.should[i]
                IN  IF isWildcardSpecialValue(v)
                    THEN /\ b.tag = "wildcard"
                         /\ b.field = cField \o RAW
                         /\ b.value = <<"*">> \o valueFromWildcardSpecialValue(v) \o <<"*">>
                         /\ b.case_insensitive
                    ELSE /\ b.tag = "terms"
                         /\ b.field = cField \o RAW
                         /\ b.values = <<v>>

C6_Witness ==
    /\ Compiled
    /\ cFilter.type = "terms"
    /\ cFilter.value.list = <<wildcardSpecialValue(<<"x">>), <<"y">>>>
    /\ cField = FieldA
    /\ cFilter.spec.extraQueryField = Undefined
    /\ cQuery.should[1].tag = "wildcard"
    /\ cQuery.should[1].value = <<"*", "x", "*">>
    /\ cQuery.should[2].tag = "terms"

----------------------------------------------------------------------------
(* getESQueryBody.                                                         *)

\* lodash omit(filters, [key]) on an insertion-ordered object
Omit(fs, key) ==
    LET Keep(p) == p.key # key
    IN  SelectSeq(fs, Keep)

\* "field" in filter.spec ? filter.spec.field : field
FieldOf(p) == IF p.filter.spec.hasField THEN p.filter.spec.field ELSE p.key

\* toPairs(contextFilters).flatMap(...): one clause per entry, in insertion order
ContextQueries(contextFilters) ==
    [i \in 1..Len(contextFilters) |->
        getESQueryFromFilter(FieldOf(contextFilters[i]), contextFilters[i].filter)]

\* an array is truthy in JavaScript, the empty one too
ArrayTruthy(a) == TRUE

\* suggestFilter ? omit(filters, [suggestFilter.spec.field]) : filters
ContextFilters(fs, suggestFilter) ==
    IF suggestFilter # Undefined THEN Omit(fs, suggestFilter.spec.field) ELSE fs

\* the clauses collected before they are combined
Queries(fs, suggestFilter) ==
    LET base == ContextQueries(ContextFilters(fs, suggestFilter))
    IN  IF suggestFilter # Undefined /\ ArrayTruthy(suggestFilter.value.list)
        THEN Append(base, getESQueryFromFilter(suggestFilter.spec.field, suggestFilter))
        ELSE base

\* queries.length > 1 ? {bool: {must: queries}} : queries[0]
Combine(queries) ==
    IF Len(queries) > 1 THEN BoolMust(queries)
    ELSE IF Len(queries) = 1 THEN queries[1]
    ELSE Undefined

getESQueryBody(fs, suggestFilter) == Combine(Queries(fs, suggestFilter))

----------------------------------------------------------------------------
(* getESHighlight.                                                         *)

getESHighlight(fs) ==
    LET IsQuery(p) == p.filter.type = "query"
        qs == SelectSeq(fs, IsQuery)
    IN  [fields |-> [i \in 1..Len(qs) |->
            [field |-> qs[i].key, number_of_fragments |-> 2, fragment_size |-> 50]]]

----------------------------------------------------------------------------
(* getESIncludeRegexp.                                                     *)

LowerOf(c) ==
    CASE c = "A" -> "a" [] c = "B" -> "b" [] c = "X" -> "x" [] c = "Y" -> "y" [] OTHER -> c

UpperOf(c) ==
    CASE c = "a" -> "A" [] c = "b" -> "B" [] c = "x" -> "X" [] c = "y" -> "Y" [] OTHER -> c

ANYSTAR == <<".", "*">>

RECURSIVE Join(_)
\* join("") of a sequence of strings
Join(ss) == IF ss = <<>> THEN <<>> ELSE Head(ss) \o Join(Tail(ss))

\* `[${char}${char.toUpperCase()}]` for a char of query.toLowerCase()
CharClass(c) == <<"[", LowerOf(c), UpperOf(LowerOf(c)), "]">>

getESIncludeRegexp(query) ==
    ANYSTAR \o Join([i \in 1..Len(query) |-> CharClass(query[i])]) \o ANYSTAR

----------------------------------------------------------------------------
(* getTerms: the request.                                                  *)

TERMSLIST == <<"t", "e", "r", "m", "s", "L", "i", "s", "t">>

\* an optional number (the count argument)
NoNum == [def |-> FALSE, n |-> 0]
Num(n) == [def |-> TRUE, n |-> n]

\* value !== undefined ? {spec: filter, value: [wildcardSpecialValue(value)], type: "terms"} : undefined
SuggestFilter(filter, value) ==
    IF value.def
    THEN [type |-> "terms", spec |-> filter,
          value |-> [list |-> <<wildcardSpecialValue(value.s)>>]]
    ELSE Undefined

\* a non-empty string is truthy
StrTruthy(v) == v.def /\ v.s # <<>>

\* aggs.termsList, with the "extra" sub-aggregation when the facet has an extra clause
TermsListAgg(filter, value, count) ==
    [terms |->
        [field |-> filter.field \o RAW,
         size |-> IF count.def /\ count.n # 0 THEN count.n ELSE 15,
         order |-> IF filter.order = "key_asc"
                   THEN [by |-> "_key", dir |-> "asc"]
                   ELSE [by |-> "_count", dir |-> "desc"],
         include |-> IF StrTruthy(value)
                     THEN Def(ANYSTAR \o getESIncludeRegexp(value.s) \o ANYSTAR)
                     ELSE Undef],
     aggs |-> IF HasExtra(filter)
              THEN [extra |-> [filter |-> filter.extraQueryField]]
              ELSE Undefined]

\* an object with one member
Obj(name, value) == [name |-> name, value |-> value]

\* obj[name]: undefined when the object has no such member
Member(obj, name) == IF obj.name = name THEN obj.value ELSE Undefined

IsNested(filter) == Includes(filter.field, DOT)
NestedPath(filter) == SplitHead(filter.field, DOT)

\* isNested && nestedPath && searchQuery.body: an empty path is falsy
UseNestedLayer(filter) == IsNested(filter) /\ NestedPath(filter) # <<>>

\* isNested && nestedPath, where the response is read
ReadsNestedLayer(filter) == IsNested(filter) /\ NestedPath(filter) # <<>>

TermsAggs(filter, value, count) ==
    IF UseNestedLayer(filter)
    THEN Obj(NestedPath(filter),
             [nested |-> [path |-> NestedPath(filter)],
              aggs |-> Obj(TERMSLIST, TermsListAgg(filter, value, count))])
    ELSE Obj(TERMSLIST, TermsListAgg(filter, value, count))

\* JSON.stringify(searchQuery.body): a member whose value is undefined is not sent
TermsBody(fs, filter, value, count) ==
    LET query == getESQueryBody(fs, SuggestFilter(filter, value))
        keys == {"size", "aggs"} \cup (IF query # Undefined THEN {"query"} ELSE {})
    IN  [k \in keys |-> CASE k = "size" -> 0
                          [] k = "aggs" -> TermsAggs(filter, value, count)
                          [] OTHER -> query]

\* fetch(...) of getTerms: no signal is handed to fetch
TermsRequest(ctx, filter, value, count) ==
    [op |-> "getTerms", ctx |-> ctx, filter |-> filter, value |-> value, count |-> count,
     signal |-> FALSE, body |-> TermsBody(ctx.filters, filter, value, count)]

----------------------------------------------------------------------------
(* getTerms: the response.                                                 *)

\* the terms aggregation under the request's aggs, and the layer over it
RequestedLayer(body) ==
    IF body["aggs"].name = TERMSLIST THEN Undef ELSE Def(body["aggs"].name)

RequestedTermsList(body) ==
    IF body["aggs"].name = TERMSLIST THEN body["aggs"].value ELSE body["aggs"].value.aggs.value

KeyAt(i) == [j \in 1..i |-> "x"]

\* the buckets Elasticsearch may answer with: distinct keys, at least one document
\* each, and an "extra" filter count no larger than the bucket when one was asked for
BucketChoices(withExtra) ==
    UNION {[doc_count : {d}, extra : IF withExtra THEN {Num(e) : e \in 0..d} ELSE {NoNum}]
            : d \in 1..MaxCount}

BucketLists(withExtra) ==
    UNION {{[i \in 1..k |-> [key |-> KeyAt(i), doc_count |-> f[i].doc_count, extra |-> f[i].extra]]
                : f \in [1..k -> BucketChoices(withExtra)]}
            : k \in 0..MaxBuckets}

\* the answers to a getTerms request: shaped as the request's aggs are
Responses(body) ==
    LET layer == RequestedLayer(body)
        withExtra == RequestedTermsList(body).aggs # Undefined
    IN  {[aggregations |->
            IF layer.def
            THEN Obj(layer.s, Obj(TERMSLIST, [buckets |-> b]))
            ELSE Obj(TERMSLIST, [buckets |-> b])]
         : b \in BucketLists(withExtra)}

TypeError == [tag |-> "TypeError"]

\* data.aggregations[nestedPath].termsList.buckets or data.aggregations.termsList.buckets;
\* reading a member of undefined throws
ReadBuckets(filter, data) ==
    LET top == IF ReadsNestedLayer(filter)
               THEN Member(data.aggregations, NestedPath(filter))
               ELSE data.aggregations
    IN  IF top = Undefined THEN Undefined ELSE Member(top, TERMSLIST)

\* BucketCount without the "extra" case: always the raw bucket count
BucketCount_Raw(filter, bucket) == bucket.doc_count

\* filter.extraQueryField && bucket.extra ? bucket.extra.doc_count : bucket.doc_count
BucketCount(filter, bucket) ==
    IF HasExtra(filter) /\ bucket.extra.def THEN bucket.extra.n ELSE bucket.doc_count

\* buckets.map(...).filter((t) => t.count > 0)
TermsOfBuckets(filter, buckets) ==
    LET Positive(t) == t.count > 0
    IN  SelectSeq([i \in 1..Len(buckets) |->
                    [term |-> buckets[i].key, count |-> BucketCount(filter, buckets[i])]],
                  Positive)

\* the promise resolves to the list, or rejects with the TypeError of the read
ParseTermsResponse(filter, data) ==
    LET read == ReadBuckets(filter, data)
    IN  IF read = Undefined
        THEN [settled |-> "rejected", error |-> TypeError, terms |-> <<>>]
        ELSE [settled |-> "resolved", error |-> Undefined,
              terms |-> TermsOfBuckets(filter, read.buckets)]

----------------------------------------------------------------------------
(* search and downSearchAsCSV: the requests.                               *)

\* context.sort ? context.sort.expression : undefined
SortExpression(ctx) == IF ctx.sort # Undefined THEN ctx.sort.expression ELSE Undefined

\* JSON.stringify(omitBy({size, from, query, sort, track_total_hits, highlight}, isUndefined))
SearchBody(ctx, from, size) ==
    LET query == getESQueryBody(ctx.filters, Undefined)
        srt == SortExpression(ctx)
        keys == {"size", "from", "track_total_hits", "highlight"}
                    \cup (IF query # Undefined THEN {"query"} ELSE {})
                    \cup (IF srt # Undefined THEN {"sort"} ELSE {})
    IN  [k \in keys |-> CASE k = "size" -> size
                          [] k = "from" -> from
                          [] k = "track_total_hits" -> TRUE
                          [] k = "highlight" -> getESHighlight(ctx.filters)
                          [] k = "query" -> query
                          [] OTHER -> srt]

\* CsvBody without its sort member
CsvBody_NoSort(ctx) ==
    LET query == getESQueryBody(ctx.filters, Undefined)
        keys == IF query # Undefined THEN {"query"} ELSE {}
    IN  [k \in keys |-> query]

\* JSON.stringify({query, sort}): a member whose value is undefined is not sent
CsvBody(ctx) ==
    LET query == getESQueryBody(ctx.filters, Undefined)
        srt == SortExpression(ctx)
        keys == (IF query # Undefined THEN {"query"} ELSE {})
                    \cup (IF srt # Undefined THEN {"sort"} ELSE {})
    IN  [k \in keys |-> IF k = "query" THEN query ELSE srt]

\* fetch(..., {signal, ...}): the caller's signal, when it gave one
SearchRequest(ctx, from, size, signal) ==
    [op |-> "search", ctx |-> ctx, from |-> from, size |-> size, signal |-> signal,
     body |-> SearchBody(ctx, from, size)]

\* fetch(...) of downSearchAsCSV: no signal is handed to fetch
CsvRequest(ctx, filename) ==
    [op |-> "downSearchAsCSV", ctx |-> ctx, filename |-> filename, signal |-> FALSE,
     body |-> CsvBody(ctx)]

----------------------------------------------------------------------------
(* The include pattern as Elasticsearch reads it (Lucene regular           *)
(* expressions): ".*" is any string, "[...]" a character class, "[^...]"   *)
(* its complement; the whole value must match.                             *)

RECURSIVE ParseRegexp(_, _)
ParseRegexp(p, i) ==
    IF i > Len(p) THEN <<>>
    ELSE IF p[i] = "." /\ i < Len(p) /\ p[i + 1] = "*"
         THEN <<[kind |-> "anystar"]>> \o ParseRegexp(p, i + 2)
    ELSE IF p[i] = "["
         THEN LET negate == i < Len(p) /\ p[i + 1] = "^"
                  first == IF negate THEN i + 2 ELSE i + 1
                  \* the first member is read whatever it is; the class ends at the next "]"
                  close == IndexOf(p, "]", first + 1)
              IN  IF close > Len(p)
                  THEN <<[kind |-> "error"]>>
                  ELSE <<[kind |-> "class", negate |-> negate,
                          chars |-> {p[j] : j \in first..(close - 1)}]>>
                       \o ParseRegexp(p, close + 1)
    ELSE <<[kind |-> "error"]>>

RECURSIVE MatchesFrom(_, _, _, _)
MatchesFrom(toks, ti, v, vi) ==
    IF ti > Len(toks) THEN vi > Len(v)
    ELSE CASE toks[ti].kind = "anystar" ->
                \/ MatchesFrom(toks, ti + 1, v, vi)
                \/ (vi <= Len(v) /\ MatchesFrom(toks, ti, v, vi + 1))
           [] toks[ti].kind = "class" ->
                /\ vi <= Len(v)
                /\ (v[vi] \in toks[ti].chars) # toks[ti].negate
                /\ MatchesFrom(toks, ti + 1, v, vi + 1)
           [] OTHER -> FALSE

RegexpMatches(pattern, v) == MatchesFrom(ParseRegexp(pattern, 1), 1, v, 1)

----------------------------------------------------------------------------
(* The caller's session: it edits the context, calls search, getTerms and  *)
(* downSearchAsCSV, aborts a request it gave a signal, and requests settle. *)

Context == [filters |-> filters, sort |-> sort]

Pair(key, filter) == [key |-> key, filter |-> filter]

HasKey(fs, key) == \E i \in 1..Len(fs) : fs[i].key = key

\* filters[key] = filter on an insertion-ordered object
Put(fs, key, filter) ==
    IF HasKey(fs, key)
    THEN [i \in 1..Len(fs) |-> IF fs[i].key = key THEN Pair(key, filter) ELSE fs[i]]
    ELSE Append(fs, Pair(key, filter))

SetFilter(key, filter) ==
    /\ Put(filters, key, filter) # filters
    /\ filters' = Put(filters, key, filter)
    /\ UNCHANGED <<sort, inflight, termsResult, compileVars, regexpVars>>

RemoveFilter(key) ==
    /\ HasKey(filters, key)
    /\ filters' = Omit(filters, key)
    /\ UNCHANGED <<sort, inflight, termsResult, compileVars, regexpVars>>

SetSort(s) ==
    /\ s # sort
    /\ sort' = s
    /\ UNCHANGED <<filters, inflight, termsResult, compileVars, regexpVars>>

Send(r) ==
    /\ Cardinality(inflight) < MaxInflight
    /\ r \notin inflight
    /\ inflight' = inflight \cup {r}
    /\ UNCHANGED <<filters, sort, termsResult, compileVars, regexpVars>>

Search(from, size, signal) == Send(SearchRequest(Context, from, size, signal))

DownSearchAsCSV(filename) == Send(CsvRequest(Context, filename))

GetTerms(filter, value, count) == Send(TermsRequest(Context, filter, value, count))

\* the caller aborts the signal it handed to fetch: the promise rejects
Abort(r) ==
    /\ r \in inflight
    /\ r.signal
    /\ inflight' = inflight \ {r}
    /\ UNCHANGED <<filters, sort, termsResult, compileVars, regexpVars>>

\* .then((r) => r.json()).then(...) of search, .then((res) => res.blob()).then(...) of
\* downSearchAsCSV: the promise settles
Settle(r) ==
    /\ r \in inflight
    /\ r.op \in {"search", "downSearchAsCSV"}
    /\ inflight' = inflight \ {r}
    /\ UNCHANGED <<filters, sort, termsResult, compileVars, regexpVars>>

\* .then((res) => res.json()).then((data) => ...) of getTerms
GetTermsResponse(r, data) ==
    /\ r \in inflight
    /\ r.op = "getTerms"
    /\ data \in Responses(r.body)
    /\ inflight' = inflight \ {r}
    /\ termsResult' = [tag |-> "settled", filter |-> r.filter, data |-> data,
                       result |-> ParseTermsResponse(r.filter, data)]
    /\ UNCHANGED <<filters, sort, compileVars, regexpVars>>

\* the caller takes the list the promise resolved to (or its rejection)
TakeTerms ==
    /\ termsResult # Pending
    /\ termsResult' = Pending
    /\ UNCHANGED <<filters, sort, inflight, compileVars, regexpVars>>

----------------------------------------------------------------------------
(* The facets, filter entries and contexts drawn as inputs.                *)

FieldE == <<"e">>
FieldPM == <<"p", ".", "m">>
KeyQ == <<"q">>
FieldD == <<"d">>

FacetA == FilterSpec("terms", FieldA, Undefined)
FacetE == [FilterSpec("terms", FieldE, ExtraClause) EXCEPT !.order = "key_asc"]
FacetPN == FilterSpec("terms", FieldPN, ExtraClause)
FacetPM == FilterSpec("terms", FieldPM, Undefined)
Facets == {FacetA, FacetE, FacetPN, FacetPM}

\* a free-text spec has no field of its own: its key stands for it
QuerySpec ==
    [kind |-> "query", hasField |-> FALSE, field |-> <<>>, order |-> "count_desc",
     extraQueryField |-> Undefined]
DateSpec == FilterSpec("dates", FieldD, Undefined)

TermsFilter(spec, values) == [type |-> "terms", spec |-> spec, value |-> [list |-> values]]

EntryAx == Pair(FieldA, TermsFilter(FacetA, <<<<"x">>>>))
EntryAy == Pair(FieldA, TermsFilter(FacetA, <<<<"y">>>>))
EntryPN == Pair(FieldPN, TermsFilter(FacetPN, <<wildcardSpecialValue(<<"x">>)>>))
EntryQ == Pair(KeyQ, [type |-> "query", spec |-> QuerySpec, value |-> [text |-> <<"x">>]])
EntryD == Pair(FieldD, [type |-> "dates", spec |-> DateSpec,
                        value |-> [min |-> Def(Year2000), max |-> Undef]])

EntryPool == {EntryAx, EntryAy, EntryPN, EntryQ, EntryD}

\* the FiltersStates of at most n entries: an object holds a key once
FiltersStates(n) ==
    {fs \in SeqsUpTo(EntryPool, n) :
        \A i, j \in 1..Len(fs) : fs[i].key = fs[j].key => i = j}

SortByDate == [expression |-> [by |-> "date", dir |-> "asc"]]
Sorts == {Undefined, SortByDate}

\* the typed text: absent, empty, or a string
TypedValues == {Undef} \cup {Def(t) : t \in {<<>>, <<"x">>, <<"X", "y">>}}

Counts == {NoNum, Num(0), Num(5)}

----------------------------------------------------------------------------
(* SpecTerms: getTerms, from the call to the settled promise, one call at  *)
(* a time over every context, facet, typed text and count.                 *)

InitTerms ==
    /\ filters \in FiltersStates(MaxFilters)
    /\ sort = Undefined
    /\ inflight = {}
    /\ termsResult = Pending
    /\ cField = FieldA
    /\ cFilter = EntryAx.filter
    /\ cQuery = Pending
    /\ IdleRegexp

TermsCall == \E f \in Facets, v \in TypedValues, c \in Counts :
                inflight = {} /\ termsResult = Pending /\ GetTerms(f, v, c)

TermsSettle ==
    \E r \in {q \in inflight : q.op = "getTerms"} :
        \E data \in Responses(r.body) : GetTermsResponse(r, data)

NextTerms == TermsCall \/ TermsSettle \/ TakeTerms

SpecTerms == InitTerms /\ [][NextTerms]_vars

----------------------------------------------------------------------------
(* SpecSearch: search and downSearchAsCSV called on one context.           *)

InitSearch ==
    /\ filters \in FiltersStates(MaxFilters)
    /\ sort \in Sorts
    /\ inflight = {}
    /\ termsResult = Pending
    /\ cField = FieldA
    /\ cFilter = EntryAx.filter
    /\ cQuery = Pending
    /\ IdleRegexp

SearchCall == \E signal \in BOOLEAN : Search(0, 10, signal)

CsvCall == DownSearchAsCSV(<<"x">>)

SettleAny == \E r \in inflight : Settle(r)

AbortAny == \E r \in inflight : Abort(r)

NextSearch == SearchCall \/ CsvCall \/ SettleAny \/ AbortAny

SpecSearch == InitSearch /\ [][NextSearch]_vars

----------------------------------------------------------------------------
(* Spec: a session.  The caller edits its filters and sort while requests  *)
(* are in flight.                                                          *)

SessionPool == {EntryAx, EntryAy, EntryQ}
SessionTyped == {Undef, Def(<<>>), Def(<<"x">>)}

Init ==
    /\ IdleSession
    /\ cField = FieldA
    /\ cFilter = EntryAx.filter
    /\ cQuery = Pending
    /\ IdleRegexp

EditFilter == \E p \in SessionPool : SetFilter(p.key, p.filter)

DropFilter == \E p \in SessionPool : RemoveFilter(p.key)

EditSort == \E s \in Sorts : SetSort(s)

SuggestCall == \E v \in SessionTyped : GetTerms(FacetA, v, NoNum)

Next ==
    \/ EditFilter
    \/ DropFilter
    \/ EditSort
    \/ SearchCall
    \/ CsvCall
    \/ SuggestCall
    \/ AbortAny
    \/ SettleAny
    \/ TermsSettle
    \/ TakeTerms

Spec == Init /\ [][Next]_vars

----------------------------------------------------------------------------
(* SpecRegexp: the include pattern of getTerms tried on every typed text   *)
(* and candidate value.                                                    *)

ReChars == {"a", "A", "b", "^"}

InitRegexp ==
    /\ rTyped \in StrsUpTo(ReChars, MaxTyped) \ {<<>>}
    /\ rCand \in StrsUpTo(ReChars, MaxCand)
    /\ rMatch = "pending"
    /\ IdleSession
    /\ cField = FieldA
    /\ cFilter = EntryAx.filter
    /\ cQuery = Pending

\* terms.include of the aggregation getTerms sends, applied by Elasticsearch to rCand
IncludeMatch ==
    /\ rMatch = "pending"
    /\ LET include == TermsListAgg(FacetA, Def(rTyped), NoNum).terms.include
       IN  rMatch' = IF include.def /\ RegexpMatches(include.s, rCand)
                     THEN "match" ELSE "nomatch"
    /\ UNCHANGED <<rTyped, rCand, sessionVars, compileVars>>

NextRegexp == IncludeMatch

SpecRegexp == InitRegexp /\ [][NextRegexp]_vars

----------------------------------------------------------------------------
(* Properties of the requests and responses.                               *)

\* body[name], undefined when the member was not sent
Sent(body, name) == IF name \in DOMAIN body THEN body[name] ELSE Undefined

TermsRequests == {r \in inflight : r.op = "getTerms"}

\* C1: two suggestion requests for the same facet, typed text and count, built
\* from FiltersStates that differ only in the facet's own entry, are the same.
C1_OwnFilterExcluded ==
    \A r1, r2 \in TermsRequests :
        ( /\ r1.filter = r2.filter
          /\ r1.value = r2.value
          /\ r1.count = r2.count
          /\ Omit(r1.ctx.filters, r1.filter.field) = Omit(r2.ctx.filters, r2.filter.field) )
        => r1.body = r2.body

\* What does hold of C1's requests: the same, for a typed text that is present
\* (the empty one too)
C1_OwnFilterExcludedWhenTyped ==
    \A r1, r2 \in TermsRequests :
        ( /\ r1.filter = r2.filter
          /\ r1.value = r2.value
          /\ r1.value.def
          /\ r1.count = r2.count
          /\ Omit(r1.ctx.filters, r1.filter.field) = Omit(r2.ctx.filters, r2.filter.field) )
        => r1.body = r2.body

\* the clauses getESQueryBody collected for a getTerms request
CollectedFor(r) == Queries(r.ctx.filters, SuggestFilter(r.filter, r.value))

\* C2: with n clauses collected the query is a "match everything" clause
\* without a bool wrapper (n = 0), the single clause itself (n = 1), or a
\* bool.must of exactly those clauses (n >= 2).
C2_ShapeByClauseCount ==
    \A r \in TermsRequests :
        LET qs == CollectedFor(r)
            q == Sent(r.body, "query")
        IN  /\ Len(qs) = 0 => q.tag = "match_all"
            /\ Len(qs) = 1 => q = qs[1]
            /\ Len(qs) >= 2 => (q.tag = "bool" /\ DOMAIN q = {"tag", "must"} /\ q.must = qs)

\* What does hold of C2's requests: the shapes for n = 1 and n >= 2
C2_ShapeOfOneOrMore ==
    \A r \in TermsRequests :
        LET qs == CollectedFor(r)
            q == Sent(r.body, "query")
        IN  /\ Len(qs) = 1 => q = qs[1]
            /\ Len(qs) >= 2 => (q.tag = "bool" /\ DOMAIN q = {"tag", "must"} /\ q.must = qs)

\* the clauses a query holds at its top: itself, and the members of its conjunction
TopClauses(q) ==
    IF q = Undefined THEN {}
    ELSE {q} \cup (IF q.tag = "bool" /\ "must" \in DOMAIN q
                   THEN {q.must[i] : i \in 1..Len(q.must)}
                   ELSE {})

\* the clause of a synthetic wildcard terms-filter of the facet, for each text
SyntheticOverrides(facet) ==
    {getESQueryFromFilter(facet.field, TermsFilter(facet, <<wildcardSpecialValue(v.s)>>))
        : v \in TypedValues \ {Undef}}

HasOverride(r) == TopClauses(Sent(r.body, "query")) \cap SyntheticOverrides(r.filter) # {}

\* C4: the base query of a suggestion request holds the synthetic wildcard
\* override exactly when the typed text is non-empty, and without a typed text
\* the aggregation carries no include pattern.
C4_OverrideIffTyped ==
    \A r \in TermsRequests :
        /\ HasOverride(r) <=> StrTruthy(r.value)
        /\ ~StrTruthy(r.value) => ~RequestedTermsList(r.body).terms.include.def

\* C7: the search request and the CSV request of one context carry the same
\* query and the same sort, and the query is getESQueryBody of the context's
\* filters alone: one clause per entry, no suggestion override.
C7_ExportSameQuery ==
    \A r1, r2 \in inflight :
        (r1.op = "search" /\ r2.op = "downSearchAsCSV" /\ r1.ctx = r2.ctx) =>
            /\ Sent(r1.body, "query") = Sent(r2.body, "query")
            /\ Sent(r1.body, "sort") = Sent(r2.body, "sort")
            /\ Sent(r2.body, "sort") = (IF r2.ctx.sort = Undefined THEN Undefined
                                        ELSE r2.ctx.sort.expression)
            /\ Sent(r2.body, "query") = Combine(ContextQueries(r2.ctx.filters))

C7_Witness ==
    \E r1, r2 \in inflight :
        /\ r1.op = "search"
        /\ r2.op = "downSearchAsCSV"
        /\ r1.ctx = r2.ctx
        /\ Len(r1.ctx.filters) = 2
        /\ r1.ctx.sort = SortByDate
        /\ Sent(r2.body, "query").tag = "bool"
        /\ Len(Sent(r2.body, "query").must) = 2
        /\ Sent(r2.body, "sort") = SortByDate.expression

\* whether the function that sent r takes an abort signal to hand to fetch
SupportsAbort(r) ==
    CASE r.op = "search" ->
            \E signal \in BOOLEAN : SearchRequest(r.ctx, r.from, r.size, signal).signal
      [] r.op = "getTerms" -> TermsRequest(r.ctx, r.filter, r.value, r.count).signal
      [] OTHER -> CsvRequest(r.ctx, r.filename).signal

\* C8: every request in flight, of search, getTerms or downSearchAsCSV, is one
\* its caller can abort.
C8_EveryRequestAbortable == \A r \in inflight : SupportsAbort(r)

\* the buckets of a response, under its nested layer when it has one
BucketsOf(data) ==
    IF data.aggregations.name = TERMSLIST
    THEN data.aggregations.value.buckets
    ELSE data.aggregations.value.value.buckets

\* C9: the list getTerms resolves to holds, in bucket order, one entry per
\* bucket whose count is positive, the count being the bucket's "extra" count
\* when the facet has an extraQueryField and its raw count otherwise; and the
\* buckets of a nested facet are found under the nested layer of the request.
C9_CountsFromExtra ==
    termsResult # Pending =>
        LET facet == termsResult.filter
            buckets == BucketsOf(termsResult.data)
            terms == termsResult.result.terms
            Expected(i) == IF facet.extraQueryField # Undefined
                           THEN buckets[i].extra.n
                           ELSE buckets[i].doc_count
            kept == {i \in 1..Len(buckets) : Expected(i) > 0}
        IN  /\ termsResult.result.settled = "resolved"
            /\ \A k \in 1..Len(terms) : terms[k].count > 0
            /\ Len(terms) = Cardinality(kept)
            /\ \A i \in kept :
                terms[Cardinality({j \in kept : j <= i})]
                    = [term |-> buckets[i].key, count |-> Expected(i)]

C9_Witness ==
    /\ termsResult # Pending
    /\ termsResult.filter = FacetPN
    /\ termsResult.data.aggregations.name = <<"p">>
    /\ Len(BucketsOf(termsResult.data)) = 1
    /\ BucketsOf(termsResult.data)[1].doc_count = 2
    /\ BucketsOf(termsResult.data)[1].extra = Num(1)
    /\ termsResult.result.terms = <<[term |-> KeyAt(1), count |-> 1]>>

\* a second case of C9: a bucket whose "extra" count is zero is left out
C9_ZeroWitness ==
    /\ termsResult # Pending
    /\ termsResult.filter = FacetE
    /\ Len(BucketsOf(termsResult.data)) = 1
    /\ BucketsOf(termsResult.data)[1].extra = Num(0)
    /\ termsResult.result.terms = <<>>

\* v contains t as a substring, ignoring case
ContainsIgnoreCase(v, t) ==
    \E o \in 0..(Len(v) - Len(t)) :
        \A i \in 1..Len(t) : LowerOf(v[o + i]) = LowerOf(t[i])

\* C10: the include pattern built from a non-empty typed text matches a
\* candidate value exactly when the value contains the text ignoring case.
C10_IncludeIsContains ==
    rMatch # "pending" => ((rMatch = "match") <=> ContainsIgnoreCase(rCand, rTyped))

\* What does hold of C10's pattern: the equivalence for a typed text of letters
C10_IncludeIsContainsForLetters ==
    (rMatch # "pending" /\ \A i \in 1..Len(rTyped) : rTyped[i] \in {"a", "A", "b"}) =>
        ((rMatch = "match") <=> ContainsIgnoreCase(rCand, rTyped))
====
